---- MODULE Spec2Model ----
(***************************************************************************)
(* The search / filter / sort pipeline of SearchManager                    *)
(* (src/unnamed/part_000), as a state machine.                             *)
(*                                                                         *)
(* JavaScript values are tagged records [t, v]: a number that is an        *)
(* integer is Num(n), the number n + 0.5 is Half(n), and NaN, undefined,   *)
(* the empty string and the decimal string of an integer have their own    *)
(* tags.  A distance is a number of kilometres held in thousandths (the    *)
(* value 111.195 km is Num(111195)); the distance criterion is held the    *)
(* same way.  Objects live in a heap keyed by reference, so that a write   *)
(* to an object is seen through every list that holds the reference.       *)
(***************************************************************************)
EXTENDS Integers, Sequences, FiniteSets, TLC

\* Bounds of the model.
MaxKeys == 3

Keys == 1..MaxKeys
Searches == {1, 2}

(***************************************************************************)
(* JavaScript values and operators                                         *)
(***************************************************************************)
Num(n) == [t |-> "num", v |-> n]
Half(n) == [t |-> "half", v |-> n]
Str(n) == [t |-> "str", v |-> n]
NaN == [t |-> "nan", v |-> 0]
Undefined == [t |-> "undef", v |-> 0]
EmptyStr == [t |-> "empty", v |-> 0]
Arr(items) == [t |-> "arr", v |-> 0, items |-> items]

IsNumber(x) == x.t \in {"num", "half"}

\* Twice the value of a number, an integer.
Twice(x) == IF x.t = "half" THEN 2 * x.v + 1 ELSE 2 * x.v

FromTwice(d) == IF d % 2 = 0 THEN Num(d \div 2) ELSE Half((d - 1) \div 2)

\* ToNumber: what a relational or arithmetic operator makes of an operand.
ToNumber(x) ==
    CASE x.t \in {"num", "half"} -> x
      [] x.t = "str" -> Num(x.v)
      [] x.t = "empty" -> Num(0)
      [] x.t = "arr" -> IF Len(x.items) = 0 THEN Num(0) ELSE NaN
      [] OTHER -> NaN

\* x <= y: false as soon as an operand is NaN.
LessEq(x, y) ==
    LET a == ToNumber(x)
        b == ToNumber(y)
    IN  IsNumber(a) /\ IsNumber(b) /\ Twice(a) <= Twice(b)

\* x - y.
Minus(x, y) ==
    LET a == ToNumber(x)
        b == ToNumber(y)
    IN  IF IsNumber(a) /\ IsNumber(b) THEN FromTwice(Twice(a) - Twice(b)) ELSE NaN

\* x != y, the loose inequality: undefined equals only undefined, any other
\* pair is compared as numbers, and NaN differs from everything.
LooseNotEqual(x, y) ==
    IF x.t = "undef" \/ y.t = "undef"
    THEN x.t # y.t
    ELSE LET a == ToNumber(x)
             b == ToNumber(y)
         IN  ~(IsNumber(a) /\ IsNumber(b) /\ Twice(a) = Twice(b))

\* parseInt: the integer part of a number (towards zero), the integer a
\* decimal string spells, NaN for anything else.
parseInt(x) ==
    CASE x.t = "num" -> x
      [] x.t = "half" -> IF x.v >= 0 THEN Num(x.v) ELSE Num(x.v + 1)
      [] x.t = "str" -> Num(x.v)
      [] OTHER -> NaN

Reverse(s) == [i \in 1..Len(s) |-> s[Len(s) + 1 - i]]

Range(s) == {s[i] : i \in 1..Len(s)}

Abs(n) == IF n < 0 THEN 0 - n ELSE n

(***************************************************************************)
(* distance: the Haversine formula.  On the grid of whole degrees with     *)
(* latitude 0..1 and longitudes at most 2 apart the formula's value, in    *)
(* thousandths of a kilometre, is tabulated; an operand that is not a      *)
(* number makes every term NaN.                                            *)
(***************************************************************************)
Haversine(lat1, lat2, dlng) ==
    CASE lat1 = 0 /\ lat2 = 0 /\ dlng = 0 -> 0
      [] lat1 = 0 /\ lat2 = 0 /\ dlng = 1 -> 111195
      [] lat1 = 0 /\ lat2 = 0 /\ dlng = 2 -> 222390
      [] lat1 # lat2 /\ dlng = 0 -> 111195
      [] lat1 # lat2 /\ dlng = 1 -> 157249
      [] lat1 # lat2 /\ dlng = 2 -> 248629
      [] lat1 = 1 /\ lat2 = 1 /\ dlng = 0 -> 0
      [] lat1 = 1 /\ lat2 = 1 /\ dlng = 1 -> 111178
      [] lat1 = 1 /\ lat2 = 1 /\ dlng = 2 -> 222356

distance(loc1, loc2) ==
    IF loc1.lat.t = "num" /\ loc1.lng.t = "num" /\ loc2.lat.t = "num" /\ loc2.lng.t = "num"
    THEN Num(Haversine(loc1.lat.v, loc2.lat.v, Abs(loc2.lng.v - loc1.lng.v)))
    ELSE NaN

(***************************************************************************)
(* The four predicates.  h is the heap, eventList a sequence of            *)
(* references; each builds newList by pushing the references it keeps.     *)
(***************************************************************************)
\* newList: the references of eventList that are in keep, in eventList's order.
SelectRefs(eventList, keep) ==
    LET F[i \in 0..Len(eventList)] ==
            IF i = 0 THEN <<>>
            ELSE IF eventList[i] \in keep THEN Append(F[i - 1], eventList[i]) ELSE F[i - 1]
    IN  F[Len(eventList)]

\* Mutant: the attendees are not counted.
slotsAvailableNoAttendees(h, r) == parseInt(h[r].details.partySize)

slotsAvailable(h, r) ==
    Minus(parseInt(h[r].details.partySize), Num(Len(h[r].attendees)))

\* Mutant: the comparison is strict.
filterPartySizeStrict(h, eventList, partySize) ==
    SelectRefs(eventList,
               {r \in Range(eventList) :
                   LessEq(partySize, slotsAvailable(h, r))
                   /\ ~LessEq(slotsAvailable(h, r), partySize)})

filterPartySize(h, eventList, partySize) ==
    SelectRefs(eventList,
               {r \in Range(eventList) : LessEq(partySize, slotsAvailable(h, r))})

\* Mutant: the loop stops at the first event that costs too much.
filterCostBreak(h, eventList, cost) ==
    LET F[i \in 0..Len(eventList)] ==
            IF i = 0 THEN <<>>
            ELSE IF Len(F[i - 1]) = i - 1 /\ LessEq(h[eventList[i]].details.cost, cost)
                 THEN Append(F[i - 1], eventList[i])
                 ELSE F[i - 1]
    IN  F[Len(eventList)]

filterCost(h, eventList, cost) ==
    SelectRefs(eventList,
               {r \in Range(eventList) : LessEq(h[r].details.cost, cost)})

filterCategories(h, eventList, categories) ==
    SelectRefs(eventList,
               {r \in Range(eventList) :
                   \E j \in 1..Len(categories) :
                       categories[j] \in Range(h[r].details.categories)})

filterDistance(h, eventList, dist, currentLocation) ==
    SelectRefs(eventList,
               {r \in Range(eventList) :
                   LessEq(distance(h[r].details.region, currentLocation), dist)})

(***************************************************************************)
(* Sorting.  Array.prototype.sort is stable and takes a comparator result  *)
(* of NaN for +0; it is modelled as an insertion sort that moves an        *)
(* element left past the elements the comparator puts after it.            *)
(***************************************************************************)
compareDistance(h, a, b) == Minus(h[a].distance, h[b].distance)

compareCost(h, a, b) == Minus(h[a].details.cost, h[b].details.cost)

compareFn(h, a, b, key) ==
    IF key = "distance" THEN compareDistance(h, a, b) ELSE compareCost(h, a, b)

\* Whether a comparator result orders its first argument after its second.
SortsAfter(c) == IsNumber(c) /\ Twice(c) > 0

\* Mutant: an element also moves left past the elements that compare equal
\* to it, which makes the sort unstable.
InsertSortedUnstable(h, s, x, key) ==
    LET p == CHOOSE q \in 0..Len(s) :
                 /\ \A i \in (q + 1)..Len(s) : ~SortsAfter(compareFn(h, x, s[i], key))
                 /\ q = 0 \/ SortsAfter(compareFn(h, x, s[q], key))
    IN  SubSeq(s, 1, p) \o <<x>> \o SubSeq(s, p + 1, Len(s))

InsertSorted(h, s, x, key) ==
    LET p == CHOOSE q \in 0..Len(s) :
                 /\ \A i \in (q + 1)..Len(s) : SortsAfter(compareFn(h, s[i], x, key))
                 /\ q = 0 \/ ~SortsAfter(compareFn(h, s[q], x, key))
    IN  SubSeq(s, 1, p) \o <<x>> \o SubSeq(s, p + 1, Len(s))

ArraySort(h, eventList, key) ==
    LET F[i \in 0..Len(eventList)] ==
            IF i = 0 THEN <<>> ELSE InsertSorted(h, F[i - 1], eventList[i], key)
    IN  F[Len(eventList)]

sortByDistance(h, eventList, desc) ==
    LET sorted == ArraySort(h, eventList, "distance")
    IN  IF desc THEN Reverse(sorted) ELSE sorted

\* Mutant: the descending flag is ignored.
sortByCostNoReverse(h, eventList, desc) == ArraySort(h, eventList, "cost")

sortByCost(h, eventList, desc) ==
    LET sorted == ArraySort(h, eventList, "cost")
    IN  IF desc THEN Reverse(sorted) ELSE sorted

\* The heap after addDistances: every object of eventList has its distance
\* field set.
addDistances(h, eventList, latitude, longitude) ==
    [r \in DOMAIN h |->
        IF r \in Range(eventList)
        THEN [h[r] EXCEPT !.distance =
                 distance(h[r].details.region, [lat |-> latitude, lng |-> longitude])]
        ELSE h[r]]

SORT_STRATEGIES == [byDistance |-> "byDistance", byCost |-> "byCost"]

\* sort: the heap and the array after the call.
sort(h, eventList, sd) ==
    LET h2 == addDistances(h, eventList, sd.userLatitude, sd.userLongitude)
    IN  [heap |-> h2,
         list |-> IF sd.sortType = SORT_STRATEGIES.byDistance
                  THEN sortByDistance(h2, eventList, FALSE)
                  ELSE sortByCost(h2, eventList, FALSE)]

(***************************************************************************)
(* SearchDetails                                                           *)
(***************************************************************************)
SEARCH_DETAILS_DEFAULTS ==
    [startTime |-> Num(-1), endTime |-> Num(-1), location |-> Num(-1),
     cost |-> Num(-1), partySize |-> Num(-1), categories |-> Num(-1)]

\* obj[name]: undefined when obj has no such property.
GetProp(obj, name) == IF name \in DOMAIN obj THEN obj[name] ELSE Undefined

(***************************************************************************)
(* The records the event store can hold, and the stores: a mapping from    *)
(* the keys 1..n to records.  Object.keys lists the keys in ascending      *)
(* order.                                                                  *)
(***************************************************************************)
Region(lat, lng) == [lat |-> Num(lat), lng |-> Num(lng)]

EventPool ==
    { [attendees |-> <<"u1", "u2">>,
       details |-> [cost |-> Num(2), partySize |-> Num(4),
                    categories |-> <<"music">>, region |-> Region(0, 0)]],
      [attendees |-> <<>>,
       details |-> [cost |-> Half(1), partySize |-> Str(2),
                    categories |-> <<"food">>, region |-> Region(0, 2)]],
      [attendees |-> <<"u1", "u2">>,
       details |-> [cost |-> Num(2), partySize |-> Num(2),
                    categories |-> <<"music", "food">>, region |-> Region(0, 1)]],
      [attendees |-> <<"u1", "u2", "u3">>,
       details |-> [cost |-> Half(2), partySize |-> Num(1),
                    categories |-> <<>>, region |-> Region(1, 0)]] }

Stores == UNION {[1..n -> EventPool] : n \in 0..MaxKeys}

\* The search criteria a caller can pass.
Locations ==
    { [lat |-> Num(0), lng |-> Num(0)],
      [lat |-> Num(0), lng |-> Num(1)],
      [lat |-> Undefined, lng |-> Undefined] }

Criteria(partySizes, costs, categories, distances, locations, sortTypes) ==
    { [partySize |-> ps, cost |-> c, categories |-> cat, distance |-> d,
       userLatitude |-> loc.lat, userLongitude |-> loc.lng, sortType |-> st] :
        ps \in partySizes, c \in costs, cat \in categories, d \in distances,
        loc \in locations, st \in sortTypes }

SortTypes == {SORT_STRATEGIES.byDistance, SORT_STRATEGIES.byCost}

SearchInputs ==
    Criteria({Num(-1), Num(0), Num(2), EmptyStr},
             {Num(-1), Half(2)},
             {Num(-1), Arr(<<"food", "art">>)},
             {Undefined, Num(-1000), Num(150000)},
             { [lat |-> Num(0), lng |-> Num(1)], [lat |-> Undefined, lng |-> Undefined] },
             SortTypes)

(***************************************************************************)
(* State                                                                   *)
(***************************************************************************)
VARIABLES
    store,          \* the event store: key -> record
    heap,           \* reference -> object
    pc,             \* per search: idle, fetching, filtered, returned
    entry,          \* per search: the method the caller called
    searchDetails,  \* per search: the criteria passed
    allEvents,      \* per search: snapshot.val(), the references by key
    eventList,      \* per search: the array eventList
    filterResult,   \* per search: the contents of the array filter returned
    call,           \* the last direct call of a method on a returned list
    ret             \* what that call returned

vars == <<store, heap, pc, entry, searchDetails, allEvents, eventList,
          filterResult, call, ret>>

NoCall == [op |-> "none", list |-> <<>>, heap |-> <<>>, args |-> <<>>]

NoDetails == [partySize |-> Num(-1), cost |-> Num(-1), categories |-> Num(-1),
              distance |-> Undefined, userLatitude |-> Undefined,
              userLongitude |-> Undefined, sortType |-> SORT_STRATEGIES.byCost]

Init ==
    /\ store \in Stores
    /\ heap = <<>>
    /\ pc = [s \in Searches |-> "idle"]
    /\ entry = [s \in Searches |-> "none"]
    /\ searchDetails = [s \in Searches |-> NoDetails]
    /\ allEvents = [s \in Searches |-> <<>>]
    /\ eventList = [s \in Searches |-> <<>>]
    /\ filterResult = [s \in Searches |-> <<>>]
    /\ call = NoCall
    /\ ret = <<>>

(***************************************************************************)
(* filter and filterAndSort                                                *)
(***************************************************************************)
\* The object snapshot.val() holds for a key of search s, and the object
\* the map of filter builds from it.
SnapshotRef(s, k) == <<"snapshot", s, k>>

\* Mutant: the map returns the snapshot's own object with eventId set on it.
CopyRefAlias(s, k) == <<"snapshot", s, k>>

\* Mutant: the mapped objects are kept per key and shared by the searches.
CopyRefShared(s, k) == <<"eventList", 1, k>>

CopyRef(s, k) == <<"eventList", s, k>>

KeyStr(k) == [t |-> "key", v |-> k]

\* h with the objects objs (reference -> object) written.
Write(h, objs) ==
    [r \in DOMAIN h \cup DOMAIN objs |-> IF r \in DOMAIN objs THEN objs[r] ELSE h[r]]

\* snapshot.val(): one fresh object per key of the store.
SnapshotVal(st, s) ==
    [r \in {SnapshotRef(s, k) : k \in DOMAIN st} |->
        LET k == CHOOSE k \in DOMAIN st : SnapshotRef(s, k) = r
        IN  [attendees |-> st[k].attendees, details |-> st[k].details,
             eventId |-> Undefined, distance |-> Undefined]]

\* Object.keys(allEvents).map(key => ({...allEvents[key], eventId: key})).
MapCopies(h, st, s) ==
    [r \in {CopyRef(s, k) : k \in DOMAIN st} |->
        LET k == CHOOSE k \in DOMAIN st : CopyRef(s, k) = r
        IN  [h[SnapshotRef(s, k)] EXCEPT !.eventId = KeyStr(k)]]

\* Mutant: the cost predicate is applied whatever the criterion is.
ApplyFiltersCostAlways(h, list, sd) ==
    LET l1 == IF LooseNotEqual(sd.partySize, GetProp(SEARCH_DETAILS_DEFAULTS, "partySize"))
              THEN filterPartySize(h, list, parseInt(sd.partySize))
              ELSE list
        l2 == filterCost(h, l1, parseInt(sd.cost))
        l3 == IF LooseNotEqual(sd.categories, GetProp(SEARCH_DETAILS_DEFAULTS, "categories"))
              THEN filterCategories(h, l2, sd.categories.items)
              ELSE l2
        l4 == IF LooseNotEqual(sd.distance, GetProp(SEARCH_DETAILS_DEFAULTS, "distance"))
              THEN filterDistance(h, l3, sd.distance,
                                  [lat |-> sd.userLatitude, lng |-> sd.userLongitude])
              ELSE l3
    IN  l4

\* The predicates of filter, each skipped when its criterion is the default.
ApplyFilters(h, list, sd) ==
    LET l1 == IF LooseNotEqual(sd.partySize, GetProp(SEARCH_DETAILS_DEFAULTS, "partySize"))
              THEN filterPartySize(h, list, parseInt(sd.partySize))
              ELSE list
        l2 == IF LooseNotEqual(sd.cost, GetProp(SEARCH_DETAILS_DEFAULTS, "cost"))
              THEN filterCost(h, l1, parseInt(sd.cost))
              ELSE l1
        l3 == IF LooseNotEqual(sd.categories, GetProp(SEARCH_DETAILS_DEFAULTS, "categories"))
              THEN filterCategories(h, l2, sd.categories.items)
              ELSE l2
        l4 == IF LooseNotEqual(sd.distance, GetProp(SEARCH_DETAILS_DEFAULTS, "distance"))
              THEN filterDistance(h, l3, sd.distance,
                                  [lat |-> sd.userLatitude, lng |-> sd.userLongitude])
              ELSE l3
    IN  l4

\* The caller calls filter(sd): the request for the events is sent.
CallFilter(s, sd) ==
    /\ pc[s] = "idle"
    /\ call.op = "none"
    /\ pc' = [pc EXCEPT ![s] = "fetching"]
    /\ entry' = [entry EXCEPT ![s] = "filter"]
    /\ searchDetails' = [searchDetails EXCEPT ![s] = sd]
    /\ UNCHANGED <<store, heap, allEvents, eventList, filterResult, call, ret>>

\* The caller calls filterAndSort(sd), which calls filter(sd).
CallFilterAndSort(s, sd) ==
    /\ pc[s] = "idle"
    /\ call.op = "none"
    /\ pc' = [pc EXCEPT ![s] = "fetching"]
    /\ entry' = [entry EXCEPT ![s] = "filterAndSort"]
    /\ searchDetails' = [searchDetails EXCEPT ![s] = sd]
    /\ UNCHANGED <<store, heap, allEvents, eventList, filterResult, call, ret>>

\* The snapshot arrives and filter runs to its return.
FetchComplete(s) ==
    /\ pc[s] = "fetching"
    /\ LET h1 == Write(heap, SnapshotVal(store, s))
           h2 == Write(h1, MapCopies(h1, store, s))
           list == [k \in DOMAIN store |-> CopyRef(s, k)]
           out == ApplyFilters(h2, list, searchDetails[s])
       IN  /\ heap' = h2
           /\ allEvents' = [allEvents EXCEPT ![s] = [k \in DOMAIN store |-> SnapshotRef(s, k)]]
           /\ eventList' = [eventList EXCEPT ![s] = out]
           /\ filterResult' = [filterResult EXCEPT ![s] = out]
    /\ pc' = [pc EXCEPT ![s] = IF entry[s] = "filter" THEN "returned" ELSE "filtered"]
    /\ UNCHANGED <<store, entry, searchDetails, call, ret>>

\* filterAndSort resumes with the list filter returned, sorts it and returns it.
SortResume(s) ==
    /\ pc[s] = "filtered"
    /\ LET r == sort(heap, eventList[s], searchDetails[s])
       IN  /\ heap' = r.heap
           /\ eventList' = [eventList EXCEPT ![s] = r.list]
    /\ pc' = [pc EXCEPT ![s] = "returned"]
    /\ UNCHANGED <<store, entry, searchDetails, allEvents, filterResult, call, ret>>

Next ==
    \/ \E sd \in SearchInputs : CallFilter(1, sd)
    \/ \E sd \in SearchInputs : CallFilterAndSort(1, sd)
    \/ FetchComplete(1)
    \/ SortResume(1)

Spec == Init /\ [][Next]_vars

(***************************************************************************)
(* Direct calls: once a search has returned its list, the caller calls one *)
(* method of the manager on that list.                                     *)
(***************************************************************************)
PartySizeArgs == {Num(n) : n \in (0 - 2)..3} \cup {NaN}

CostArgs == {Num(1), Half(1), Num(2)}

CategoryArgs == {<<>>, <<"music">>, <<"food", "art">>}

DistanceArgs == {Num(0), Num(150000)}

Returned(s) == pc[s] = "returned" /\ call.op = "none"

\* A call that reads the list and returns a new one.
Pure(op, args, out) ==
    /\ Returned(1)
    /\ call' = [op |-> op, list |-> eventList[1], heap |-> heap, args |-> args]
    /\ ret' = out
    /\ UNCHANGED <<store, heap, pc, entry, searchDetails, allEvents, eventList, filterResult>>

\* A call that writes the heap or the list in place and returns nothing.
InPlace(op, args, h, list) ==
    /\ Returned(1)
    /\ call' = [op |-> op, list |-> eventList[1], heap |-> heap, args |-> args]
    /\ heap' = h
    /\ eventList' = [eventList EXCEPT ![1] = list]
    /\ UNCHANGED <<store, pc, entry, searchDetails, allEvents, filterResult, ret>>

CallFilterPartySize ==
    \E n \in PartySizeArgs :
        Pure("filterPartySize", <<n>>, filterPartySize(heap, eventList[1], n))

CallFilterCost ==
    \E c \in CostArgs :
        Pure("filterCost", <<c>>, filterCost(heap, eventList[1], c))

CallFilterCategories ==
    \E cats \in CategoryArgs :
        Pure("filterCategories", <<cats>>, filterCategories(heap, eventList[1], cats))

CallFilterDistance ==
    \E d \in DistanceArgs, loc \in Locations :
        Pure("filterDistance", <<d, loc>>, filterDistance(heap, eventList[1], d, loc))

CallAddDistances ==
    \E loc \in Locations :
        InPlace("addDistances", <<loc>>,
                addDistances(heap, eventList[1], loc.lat, loc.lng), eventList[1])

CallSortByDistance ==
    \E desc \in BOOLEAN :
        InPlace("sortByDistance", <<desc>>, heap, sortByDistance(heap, eventList[1], desc))

CallSortByCost ==
    \E desc \in BOOLEAN :
        InPlace("sortByCost", <<desc>>, heap, sortByCost(heap, eventList[1], desc))

CallSort ==
    \E loc \in Locations, st \in SortTypes :
        LET sd == [userLatitude |-> loc.lat, userLongitude |-> loc.lng, sortType |-> st]
            r == sort(heap, eventList[1], sd)
        IN  InPlace("sort", <<sd>>, r.heap, r.list)

UnitInputs ==
    Criteria({Num(-1), Num(0)}, {Num(-1)}, {Num(-1)}, {Undefined},
             { [lat |-> Num(0), lng |-> Num(1)] }, SortTypes)

NextUnit ==
    \/ \E sd \in UnitInputs : CallFilter(1, sd)
    \/ \E sd \in UnitInputs : CallFilterAndSort(1, sd)
    \/ FetchComplete(1)
    \/ SortResume(1)
    \/ CallFilterPartySize
    \/ CallFilterCost
    \/ CallFilterCategories
    \/ CallFilterDistance
    \/ CallAddDistances
    \/ CallSortByDistance
    \/ CallSortByCost
    \/ CallSort

SpecUnit == Init /\ [][NextUnit]_vars

(***************************************************************************)
(* Two searches started by the same manager, their steps interleaved.      *)
(***************************************************************************)
ConcInputs ==
    Criteria({Num(-1), Num(0)}, {Num(-1)}, {Num(-1)}, {Undefined},
             { [lat |-> Num(0), lng |-> Num(0)], [lat |-> Num(0), lng |-> Num(1)] },
             SortTypes)

NextConc ==
    \E s \in Searches :
        \/ \E sd \in ConcInputs : CallFilterAndSort(s, sd)
        \/ FetchComplete(s)
        \/ SortResume(s)

SpecConc == Init /\ [][NextConc]_vars

(***************************************************************************)
(* Properties                                                              *)
(***************************************************************************)
FilterDone(s) == pc[s] \in {"filtered", "returned"}

\* The state in which filter returns its list.
FilterReturned(s) ==
    pc[s] = "filtered" \/ (pc[s] = "returned" /\ entry[s] = "filter" /\ call.op = "none")

\* The array the map of filter builds, before any predicate.
AllCopies(s) == [k \in DOMAIN store |-> CopyRef(s, k)]

Unset(sd, f) == ~LooseNotEqual(sd[f], GetProp(SEARCH_DETAILS_DEFAULTS, f))

CriterionNames == {"partySize", "cost", "categories", "distance"}

UserLocation(sd) == [lat |-> sd.userLatitude, lng |-> sd.userLongitude]

\* Available capacity: details.partySize - attendees.length, an integer.
Capacity(obj) == ToNumber(obj.details.partySize).v - Len(obj.attendees)

\* Whether an object meets criterion f of sd, as section 4.2 states it.
Meets(obj, sd, f) ==
    CASE f = "partySize" ->
            LessEq(parseInt(sd.partySize), Num(Capacity(obj)))
      [] f = "cost" ->
            LessEq(obj.details.cost, parseInt(sd.cost))
      [] f = "categories" ->
            Range(sd.categories.items) \cap Range(obj.details.categories) # {}
      [] f = "distance" ->
            LessEq(distance(obj.details.region, UserLocation(sd)), sd.distance)

IsPermutation(a, b) ==
    /\ Len(a) = Len(b)
    /\ Range(a) = Range(b)
    /\ Cardinality(Range(a)) = Len(a)

\* The sort key of an object under the strategy of sd.
SortKey(obj, sd) ==
    IF sd.sortType = SORT_STRATEGIES.byDistance
    THEN distance(obj.details.region, UserLocation(sd))
    ELSE obj.details.cost

\* C1: filterAndSort returns the list filter returned, every event once,
\* ordered so that the sort key (the distance from the user's location under
\* byDistance, details.cost under byCost) never decreases along the list.
C1_FilterAndSortOrdered ==
    \A s \in Searches :
        (pc[s] = "returned" /\ entry[s] = "filterAndSort") =>
            /\ IsPermutation(eventList[s], filterResult[s])
            /\ \A i \in 1..(Len(eventList[s]) - 1) :
                   LessEq(SortKey(heap[eventList[s][i]], searchDetails[s]),
                          SortKey(heap[eventList[s][i + 1]], searchDetails[s]))

\* C2: a criterion equal to its default is skipped whatever the others are:
\* filter returns, in key order, exactly the copies that meet every criterion
\* that differs from its default; with all four at their defaults that is
\* one record per key of the store, carrying the key as eventId.
C2_UnsetSkipped ==
    \A s \in Searches :
        FilterDone(s) =>
            /\ filterResult[s] =
                   SelectRefs(AllCopies(s),
                       {r \in Range(AllCopies(s)) :
                           \A f \in CriterionNames :
                               Unset(searchDetails[s], f) \/ Meets(heap[r], searchDetails[s], f)})
            /\ (\A f \in CriterionNames : Unset(searchDetails[s], f)) =>
                   /\ Len(filterResult[s]) = Cardinality(DOMAIN store)
                   /\ \A k \in DOMAIN store :
                          /\ heap[filterResult[s][k]].eventId = KeyStr(k)
                          /\ heap[filterResult[s][k]].details = store[k].details
                          /\ heap[filterResult[s][k]].attendees = store[k].attendees

C2_Witness ==
    \E s \in Searches :
        /\ pc[s] = "returned"
        /\ \A f \in CriterionNames : Unset(searchDetails[s], f)
        /\ Len(filterResult[s]) = 3

\* C3: an event of the list given to filterPartySize is in the returned
\* list exactly when the requested party size n is a number with
\* n <= details.partySize - attendees.length.
C3_PartySizeIff ==
    call.op = "filterPartySize" =>
        \A i \in 1..Len(call.list) :
            (call.list[i] \in Range(ret)) <=>
                (call.args[1].t = "num" /\ call.args[1].v <= Capacity(call.heap[call.list[i]]))

C3_Witness ==
    /\ call.op = "filterPartySize"
    /\ call.args[1] = Num(2)
    /\ Len(call.list) = 3
    /\ Len(ret) = 1

\* The criteria of sd that differ from their defaults, applied in the order
\* given: order is a sequence of criterion names.
ApplyInOrder(h, list, sd, order) ==
    LET Step(l, f) ==
            IF Unset(sd, f) THEN l
            ELSE CASE f = "partySize" -> filterPartySize(h, l, parseInt(sd.partySize))
                   [] f = "cost" -> filterCost(h, l, parseInt(sd.cost))
                   [] f = "categories" -> filterCategories(h, l, sd.categories.items)
                   [] f = "distance" -> filterDistance(h, l, sd.distance, UserLocation(sd))
        F[i \in 0..Len(order)] == IF i = 0 THEN list ELSE Step(F[i - 1], order[i])
    IN  F[Len(order)]

Orders ==
    {o \in [1..4 -> CriterionNames] : \A i, j \in 1..4 : o[i] = o[j] => i = j}

\* C4: applying the predicates the criteria enable in any order yields the
\* same set of events as filter's order.
C4_FiltersCommute ==
    \A s \in Searches :
        FilterReturned(s) =>
            \A o \in Orders :
                Range(ApplyInOrder(heap, AllCopies(s), searchDetails[s], o))
                    = Range(filterResult[s])

C4_Witness ==
    \E s \in Searches :
        /\ FilterReturned(s)
        /\ \A f \in CriterionNames : ~Unset(searchDetails[s], f)
        /\ Len(filterResult[s]) = 1
        /\ Cardinality(DOMAIN store) = 3
        /\ \A f \in CriterionNames :
               \E k \in DOMAIN store : ~Meets(heap[CopyRef(s, k)], searchDetails[s], f)

\* The position of reference r in list.
IndexOf(list, r) == CHOOSE i \in 1..Len(list) : list[i] = r

\* Whether two objects have equal keys for the comparator named key.
EqualKeys(a, b, key) ==
    IF key = "distance"
    THEN IsNumber(a.distance) /\ IsNumber(b.distance) /\ Twice(a.distance) = Twice(b.distance)
    ELSE Twice(a.details.cost) = Twice(b.details.cost)

\* Whether after keeps the relative order that any two equal-key elements
\* have in before.
Stable(before, after, key) ==
    \A i, j \in 1..Len(after) :
        (i < j /\ EqualKeys(heap[after[i]], heap[after[j]], key)) =>
            IndexOf(before, after[i]) < IndexOf(before, after[j])

KeyName(sd) == IF sd.sortType = SORT_STRATEGIES.byDistance THEN "distance" ELSE "cost"

\* The claim of C5 as written, for any value of the descending flag.
C5_StableAnyFlag ==
    /\ call.op = "sortByCost" => Stable(call.list, eventList[1], "cost")
    /\ call.op = "sortByDistance" => Stable(call.list, eventList[1], "distance")
    /\ call.op = "sort" => Stable(call.list, eventList[1], KeyName(call.args[1]))
    /\ \A s \in Searches :
           (pc[s] = "returned" /\ entry[s] = "filterAndSort" /\ call.op = "none") =>
               Stable(filterResult[s], eventList[s], KeyName(searchDetails[s]))

\* C5 (amended): with the descending flag unset, sortByCost and
\* sortByDistance keep any two events of equal key in their input order, and
\* so do sort and filterAndSort, which never set the flag.
C5_StableAscending ==
    /\ (call.op = "sortByCost" /\ call.args[1] = FALSE) =>
           Stable(call.list, eventList[1], "cost")
    /\ (call.op = "sortByDistance" /\ call.args[1] = FALSE) =>
           Stable(call.list, eventList[1], "distance")
    /\ call.op = "sort" => Stable(call.list, eventList[1], KeyName(call.args[1]))
    /\ \A s \in Searches :
           (pc[s] = "returned" /\ entry[s] = "filterAndSort" /\ call.op = "none") =>
               Stable(filterResult[s], eventList[s], KeyName(searchDetails[s]))

C5_Witness ==
    /\ call.op = "sortByDistance"
    /\ call.args[1] = FALSE
    /\ Len(call.list) = 3
    /\ eventList[1] # call.list
    /\ \E i, j \in 1..3 :
           i # j /\ EqualKeys(heap[eventList[1][i]], heap[eventList[1][j]], "distance")

\* C10: called with the descending flag set, sortByCost and sortByDistance
\* leave the list in exactly the reverse of the order they leave it in with
\* the flag unset.
C10_DescendingIsReverse ==
    /\ (call.op = "sortByCost" /\ call.args[1] = TRUE) =>
           eventList[1] = Reverse(sortByCost(call.heap, call.list, FALSE))
    /\ (call.op = "sortByDistance" /\ call.args[1] = TRUE) =>
           eventList[1] = Reverse(sortByDistance(call.heap, call.list, FALSE))

C10_Witness ==
    /\ call.op = "sortByCost"
    /\ call.args[1] = TRUE
    /\ Len(call.list) = 3
    /\ eventList[1] # call.list
    /\ eventList[1] # Reverse(call.list)
    /\ \E i, j \in 1..3 :
           i # j /\ EqualKeys(heap[eventList[1][i]], heap[eventList[1][j]], "cost")

\* The objects a list holds, in order.
Objects(h, list) == [i \in 1..Len(list) |-> h[list[i]]]

\* The list of objects filterAndSort(sd) returns when it runs alone on
\* store st.
RunAlone(st, sd) ==
    LET h1 == Write(<<>>, SnapshotVal(st, 1))
        h2 == Write(h1, MapCopies(h1, st, 1))
        out == ApplyFilters(h2, [k \in DOMAIN st |-> CopyRef(1, k)], sd)
        r == sort(h2, out, sd)
    IN  Objects(r.heap, r.list)

\* C6: in every interleaving of two searches, the list a search returned
\* holds, then and ever after, the same events in the same order with the
\* same distance on each as the search returns when it runs alone.
C6_SearchesIndependent ==
    \A s \in Searches :
        pc[s] = "returned" =>
            Objects(heap, eventList[s]) = RunAlone(store, searchDetails[s])

C6_Witness ==
    /\ pc[1] = "returned"
    /\ pc[2] = "returned"
    /\ searchDetails[1].userLongitude # searchDetails[2].userLongitude
    /\ searchDetails[1].sortType # searchDetails[2].sortType
    /\ Len(eventList[1]) = 3
    /\ Len(eventList[2]) = 3
    /\ \E i \in 1..3 : eventList[1][i][3] # eventList[2][i][3]
    /\ \E i \in 1..3 : heap[eventList[1][i]].distance # heap[CopyRef(2, eventList[1][i][3])].distance

LocationMissing(sd) == ~IsNumber(sd.userLatitude) \/ ~IsNumber(sd.userLongitude)

\* C7: a search whose criteria carry a distance filter, or whose sorting
\* needs distances, and whose user location is missing never returns a list.
C7_MissingLocationRejected ==
    \A s \in Searches :
        (/\ LocationMissing(searchDetails[s])
         /\ \/ ~Unset(searchDetails[s], "distance")
            \/ entry[s] = "filterAndSort")
        => pc[s] # "returned"

\* The object the store's record under key k is when it is fetched.
Fetched(k) ==
    [attendees |-> store[k].attendees, details |-> store[k].details,
     eventId |-> Undefined, distance |-> Undefined]

PredicateNames == {"filterPartySize", "filterCost", "filterCategories", "filterDistance"}

\* C8: a predicate leaves the list it is given, and the objects in it, as
\* they were; and once filter has run, every record of the fetched
\* collection is as it was fetched, without eventId or distance, whatever
\* filterAndSort or a later call writes on the returned list.
C8_InputsUnchanged ==
    /\ call.op \in PredicateNames => (eventList[1] = call.list /\ heap = call.heap)
    /\ \A s \in Searches :
           FilterDone(s) =>
               /\ DOMAIN allEvents[s] = DOMAIN store
               /\ \A k \in DOMAIN store : heap[allEvents[s][k]] = Fetched(k)

C8_Witness ==
    /\ call.op = "filterCost"
    /\ entry[1] = "filterAndSort"
    /\ Len(call.list) = 3
    /\ Len(ret) = 1
    /\ \A i \in 1..3 : IsNumber(heap[call.list[i]].distance)

\* The claim of C9 as written: whenever the party-size predicate is
\* applied, no event with available capacity of zero or less is returned.
C9_NoFullEventAnyRequest ==
    \A s \in Searches :
        (FilterDone(s) /\ ~Unset(searchDetails[s], "partySize")) =>
            \A r \in Range(filterResult[s]) : Capacity(heap[r]) > 0

\* C9 (amended): when the party-size predicate is applied with a requested
\* size of at least 1, or one that is no number, no event with available
\* capacity of zero or less is returned.
C9_NoFullEvent ==
    \A s \in Searches :
        (/\ FilterDone(s)
         /\ ~Unset(searchDetails[s], "partySize")
         /\ ~LessEq(parseInt(searchDetails[s].partySize), Num(0))) =>
            \A r \in Range(filterResult[s]) : Capacity(heap[r]) > 0

C9_Witness ==
    \E s \in Searches :
        /\ FilterDone(s)
        /\ searchDetails[s].partySize = Num(2)
        /\ Len(filterResult[s]) = 1
        /\ \E k \in DOMAIN store : Capacity(heap[CopyRef(s, k)]) = 0
        /\ \E k \in DOMAIN store : Capacity(heap[CopyRef(s, k)]) < 0

====
